---- MODULE Spec2Model ----
(***************************************************************************)
(* A model of jedi/api/helpers.py: the helpers that resolve what surrounds *)
(* the cursor of a document.                                               *)
(*                                                                         *)
(*   - get_call_signature_details and its helpers, which find the open     *)
(*     call around the cursor, the argument index and the keyword name;    *)
(*   - get_stack_at_position, up to the point where it hands the code      *)
(*     before the cursor to the parser;                                    *)
(*   - cache_call_signatures under the time_cache decorator;               *)
(*   - get_possible_completion_types, the walk over the parser's stack.    *)
(*                                                                         *)
(* The syntax tree, the grammar tables and the cache decorator live        *)
(* outside helpers.py; they are modelled from their interface.             *)
(***************************************************************************)
EXTENDS Integers, Sequences, FiniteSets, TLC

VARIABLES
  module,         \* the open document: its lines and its syntax tree
  cursor,         \* the cursor, <<line, column>>: line from 1, column from 0
  sigResult,      \* what get_call_signature_details gave for module and cursor
  stackResult,    \* what get_stack_at_position gave for module and cursor
  dct,            \* time_cache's dictionary: a set of [key, expiry, value]
  now,            \* time.time(), in ticks
  requests,       \* cache_call_signatures calls made so far
  lastRequest,    \* the last cache request: its key, what it returned, ...
  stack,          \* the parser stack given to get_possible_completion_types
  calls,          \* that function's call stack while it runs
  keywords,       \* its list `keywords`
  grammar_labels, \* its list `grammar_labels`
  outcome,        \* "idle", "running", "returned" or "IndexError"
  scans,          \* how often each frame of `stack` was scanned
  expansions      \* how often each non-terminal's first set was scanned

vars == << module, cursor, sigResult, stackResult, dct, now, requests, lastRequest,
           stack, calls, keywords, grammar_labels, outcome, scans, expansions >>

editorVars == << module, cursor, sigResult, stackResult >>
cacheVars  == << dct, now, requests, lastRequest >>
walkVars   == << stack, calls, keywords, grammar_labels, outcome, scans, expansions >>

(***************************************************************************)
(* Positions and Python's sequences                                        *)
(***************************************************************************)

\* Python's tuple order on (line, column)
PosLT(p, q) == p[1] < q[1] \/ (p[1] = q[1] /\ p[2] < q[2])

PosLE(p, q) == p = q \/ PosLT(p, q)

Last(s) == s[Len(s)]

Min(a, b) == IF a < b THEN a ELSE b

\* s[lo:hi] for 0 <= lo, 0 <= hi: the elements lo+1 .. hi of s, clamped
PySlice(s, lo, hi) == SubSeq(s, Min(lo, Len(s)) + 1, Min(hi, Len(s)))

\* '\n'.join(lines), over sequences of characters
RECURSIVE Join(_)
Join(ls) ==
  IF ls = << >> THEN << >>
  ELSE IF Len(ls) = 1 THEN ls[1]
  ELSE ls[1] \o << "\n" >> \o Join(Tail(ls))

\* s.strip('\t ')
RECURSIVE LStrip(_)
LStrip(s) ==
  IF s # << >> /\ s[1] \in {"\t", " "} THEN LStrip(Tail(s)) ELSE s

RECURSIVE RStrip(_)
RStrip(s) ==
  IF s # << >> /\ Last(s) \in {"\t", " "} THEN RStrip(SubSeq(s, 1, Len(s) - 1)) ELSE s

Strip(s) == RStrip(LStrip(s))

(***************************************************************************)
(* The documents: each a text and the tree jedi's parser builds for it.    *)
(* A node is [type, value, leaf, parent, children, start, end]; parent 0   *)
(* is None, and a node that is not a leaf has no value.                    *)
(***************************************************************************)

\* foo(
DocFooOpen ==
  [ lines |-> <<<<"f", "o", "o", "(">>>>,
    nodes |-> <<
      [type |-> "file_input", value |-> "", leaf |-> FALSE, parent |-> 0, children |-> <<2, 5>>, start |-> <<1, 0>>, end |-> <<1, 4>>],
      [type |-> "error_node", value |-> "", leaf |-> FALSE, parent |-> 1, children |-> <<3, 4>>, start |-> <<1, 0>>, end |-> <<1, 4>>],
      [type |-> "name", value |-> "foo", leaf |-> TRUE, parent |-> 2, children |-> <<>>, start |-> <<1, 0>>, end |-> <<1, 3>>],
      [type |-> "operator", value |-> "(", leaf |-> TRUE, parent |-> 2, children |-> <<>>, start |-> <<1, 3>>, end |-> <<1, 4>>],
      [type |-> "endmarker", value |-> "", leaf |-> TRUE, parent |-> 1, children |-> <<>>, start |-> <<1, 4>>, end |-> <<1, 4>>]
    >> ]

\* foo(a, b=
DocKeyword ==
  [ lines |-> <<<<"f", "o", "o", "(", "a", ",", " ", "b", "=">>>>,
    nodes |-> <<
      [type |-> "file_input", value |-> "", leaf |-> FALSE, parent |-> 0, children |-> <<2, 9>>, start |-> <<1, 0>>, end |-> <<1, 9>>],
      [type |-> "error_node", value |-> "", leaf |-> FALSE, parent |-> 1, children |-> <<3, 4, 5, 6, 7, 8>>, start |-> <<1, 0>>, end |-> <<1, 9>>],
      [type |-> "name", value |-> "foo", leaf |-> TRUE, parent |-> 2, children |-> <<>>, start |-> <<1, 0>>, end |-> <<1, 3>>],
      [type |-> "operator", value |-> "(", leaf |-> TRUE, parent |-> 2, children |-> <<>>, start |-> <<1, 3>>, end |-> <<1, 4>>],
      [type |-> "name", value |-> "a", leaf |-> TRUE, parent |-> 2, children |-> <<>>, start |-> <<1, 4>>, end |-> <<1, 5>>],
      [type |-> "operator", value |-> ",", leaf |-> TRUE, parent |-> 2, children |-> <<>>, start |-> <<1, 5>>, end |-> <<1, 6>>],
      [type |-> "name", value |-> "b", leaf |-> TRUE, parent |-> 2, children |-> <<>>, start |-> <<1, 7>>, end |-> <<1, 8>>],
      [type |-> "operator", value |-> "=", leaf |-> TRUE, parent |-> 2, children |-> <<>>, start |-> <<1, 8>>, end |-> <<1, 9>>],
      [type |-> "endmarker", value |-> "", leaf |-> TRUE, parent |-> 1, children |-> <<>>, start |-> <<1, 9>>, end |-> <<1, 9>>]
    >> ]

\* foo(a, bar(
DocNested ==
  [ lines |-> <<<<"f", "o", "o", "(", "a", ",", " ", "b", "a", "r", "(">>>>,
    nodes |-> <<
      [type |-> "file_input", value |-> "", leaf |-> FALSE, parent |-> 0, children |-> <<2, 9>>, start |-> <<1, 0>>, end |-> <<1, 11>>],
      [type |-> "error_node", value |-> "", leaf |-> FALSE, parent |-> 1, children |-> <<3, 4, 5, 6, 7, 8>>, start |-> <<1, 0>>, end |-> <<1, 11>>],
      [type |-> "name", value |-> "foo", leaf |-> TRUE, parent |-> 2, children |-> <<>>, start |-> <<1, 0>>, end |-> <<1, 3>>],
      [type |-> "operator", value |-> "(", leaf |-> TRUE, parent |-> 2, children |-> <<>>, start |-> <<1, 3>>, end |-> <<1, 4>>],
      [type |-> "name", value |-> "a", leaf |-> TRUE, parent |-> 2, children |-> <<>>, start |-> <<1, 4>>, end |-> <<1, 5>>],
      [type |-> "operator", value |-> ",", leaf |-> TRUE, parent |-> 2, children |-> <<>>, start |-> <<1, 5>>, end |-> <<1, 6>>],
      [type |-> "name", value |-> "bar", leaf |-> TRUE, parent |-> 2, children |-> <<>>, start |-> <<1, 7>>, end |-> <<1, 10>>],
      [type |-> "operator", value |-> "(", leaf |-> TRUE, parent |-> 2, children |-> <<>>, start |-> <<1, 10>>, end |-> <<1, 11>>],
      [type |-> "endmarker", value |-> "", leaf |-> TRUE, parent |-> 1, children |-> <<>>, start |-> <<1, 11>>, end |-> <<1, 11>>]
    >> ]

\* def f(
DocDefOpen ==
  [ lines |-> <<<<"d", "e", "f", " ", "f", "(">>>>,
    nodes |-> <<
      [type |-> "file_input", value |-> "", leaf |-> FALSE, parent |-> 0, children |-> <<2, 6>>, start |-> <<1, 0>>, end |-> <<1, 6>>],
      [type |-> "error_node", value |-> "", leaf |-> FALSE, parent |-> 1, children |-> <<3, 4, 5>>, start |-> <<1, 0>>, end |-> <<1, 6>>],
      [type |-> "keyword", value |-> "def", leaf |-> TRUE, parent |-> 2, children |-> <<>>, start |-> <<1, 0>>, end |-> <<1, 3>>],
      [type |-> "name", value |-> "f", leaf |-> TRUE, parent |-> 2, children |-> <<>>, start |-> <<1, 4>>, end |-> <<1, 5>>],
      [type |-> "operator", value |-> "(", leaf |-> TRUE, parent |-> 2, children |-> <<>>, start |-> <<1, 5>>, end |-> <<1, 6>>],
      [type |-> "endmarker", value |-> "", leaf |-> TRUE, parent |-> 1, children |-> <<>>, start |-> <<1, 6>>, end |-> <<1, 6>>]
    >> ]

\* x = 'abc
DocOpenString ==
  [ lines |-> <<<<"x", " ", "=", " ", "'", "a", "b", "c">>>>,
    nodes |-> <<
      [type |-> "file_input", value |-> "", leaf |-> FALSE, parent |-> 0, children |-> <<2, 5, 6>>, start |-> <<1, 0>>, end |-> <<1, 8>>],
      [type |-> "error_node", value |-> "", leaf |-> FALSE, parent |-> 1, children |-> <<3, 4>>, start |-> <<1, 0>>, end |-> <<1, 3>>],
      [type |-> "name", value |-> "x", leaf |-> TRUE, parent |-> 2, children |-> <<>>, start |-> <<1, 0>>, end |-> <<1, 1>>],
      [type |-> "operator", value |-> "=", leaf |-> TRUE, parent |-> 2, children |-> <<>>, start |-> <<1, 2>>, end |-> <<1, 3>>],
      [type |-> "error_leaf", value |-> "'abc", leaf |-> TRUE, parent |-> 1, children |-> <<>>, start |-> <<1, 4>>, end |-> <<1, 8>>],
      [type |-> "endmarker", value |-> "", leaf |-> TRUE, parent |-> 1, children |-> <<>>, start |-> <<1, 8>>, end |-> <<1, 8>>]
    >> ]

\* foo(a, b=12, c)
DocCall ==
  [ lines |-> <<<<"f", "o", "o", "(", "a", ",", " ", "b", "=", "1", "2", ",", " ", "c", ")">>, <<>>>>,
    nodes |-> <<
      [type |-> "file_input", value |-> "", leaf |-> FALSE, parent |-> 0, children |-> <<2, 18>>, start |-> <<1, 0>>, end |-> <<2, 0>>],
      [type |-> "simple_stmt", value |-> "", leaf |-> FALSE, parent |-> 1, children |-> <<3, 17>>, start |-> <<1, 0>>, end |-> <<2, 0>>],
      [type |-> "power", value |-> "", leaf |-> FALSE, parent |-> 2, children |-> <<4, 5>>, start |-> <<1, 0>>, end |-> <<1, 15>>],
      [type |-> "name", value |-> "foo", leaf |-> TRUE, parent |-> 3, children |-> <<>>, start |-> <<1, 0>>, end |-> <<1, 3>>],
      [type |-> "trailer", value |-> "", leaf |-> FALSE, parent |-> 3, children |-> <<6, 7, 16>>, start |-> <<1, 3>>, end |-> <<1, 15>>],
      [type |-> "operator", value |-> "(", leaf |-> TRUE, parent |-> 5, children |-> <<>>, start |-> <<1, 3>>, end |-> <<1, 4>>],
      [type |-> "arglist", value |-> "", leaf |-> FALSE, parent |-> 5, children |-> <<8, 9, 10, 14, 15>>, start |-> <<1, 4>>, end |-> <<1, 14>>],
      [type |-> "name", value |-> "a", leaf |-> TRUE, parent |-> 7, children |-> <<>>, start |-> <<1, 4>>, end |-> <<1, 5>>],
      [type |-> "operator", value |-> ",", leaf |-> TRUE, parent |-> 7, children |-> <<>>, start |-> <<1, 5>>, end |-> <<1, 6>>],
      [type |-> "argument", value |-> "", leaf |-> FALSE, parent |-> 7, children |-> <<11, 12, 13>>, start |-> <<1, 7>>, end |-> <<1, 11>>],
      [type |-> "name", value |-> "b", leaf |-> TRUE, parent |-> 10, children |-> <<>>, start |-> <<1, 7>>, end |-> <<1, 8>>],
      [type |-> "operator", value |-> "=", leaf |-> TRUE, parent |-> 10, children |-> <<>>, start |-> <<1, 8>>, end |-> <<1, 9>>],
      [type |-> "number", value |-> "12", leaf |-> TRUE, parent |-> 10, children |-> <<>>, start |-> <<1, 9>>, end |-> <<1, 11>>],
      [type |-> "operator", value |-> ",", leaf |-> TRUE, parent |-> 7, children |-> <<>>, start |-> <<1, 11>>, end |-> <<1, 12>>],
      [type |-> "name", value |-> "c", leaf |-> TRUE, parent |-> 7, children |-> <<>>, start |-> <<1, 13>>, end |-> <<1, 14>>],
      [type |-> "operator", value |-> ")", leaf |-> TRUE, parent |-> 5, children |-> <<>>, start |-> <<1, 14>>, end |-> <<1, 15>>],
      [type |-> "newline", value |-> "\n", leaf |-> TRUE, parent |-> 2, children |-> <<>>, start |-> <<1, 15>>, end |-> <<2, 0>>],
      [type |-> "endmarker", value |-> "", leaf |-> TRUE, parent |-> 1, children |-> <<>>, start |-> <<2, 0>>, end |-> <<2, 0>>]
    >> ]

\* foo(a)(b)
DocCallTwice ==
  [ lines |-> <<<<"f", "o", "o", "(", "a", ")", "(", "b", ")">>, <<>>>>,
    nodes |-> <<
      [type |-> "file_input", value |-> "", leaf |-> FALSE, parent |-> 0, children |-> <<2, 14>>, start |-> <<1, 0>>, end |-> <<2, 0>>],
      [type |-> "simple_stmt", value |-> "", leaf |-> FALSE, parent |-> 1, children |-> <<3, 13>>, start |-> <<1, 0>>, end |-> <<2, 0>>],
      [type |-> "power", value |-> "", leaf |-> FALSE, parent |-> 2, children |-> <<4, 5, 9>>, start |-> <<1, 0>>, end |-> <<1, 9>>],
      [type |-> "name", value |-> "foo", leaf |-> TRUE, parent |-> 3, children |-> <<>>, start |-> <<1, 0>>, end |-> <<1, 3>>],
      [type |-> "trailer", value |-> "", leaf |-> FALSE, parent |-> 3, children |-> <<6, 7, 8>>, start |-> <<1, 3>>, end |-> <<1, 6>>],
      [type |-> "operator", value |-> "(", leaf |-> TRUE, parent |-> 5, children |-> <<>>, start |-> <<1, 3>>, end |-> <<1, 4>>],
      [type |-> "name", value |-> "a", leaf |-> TRUE, parent |-> 5, children |-> <<>>, start |-> <<1, 4>>, end |-> <<1, 5>>],
      [type |-> "operator", value |-> ")", leaf |-> TRUE, parent |-> 5, children |-> <<>>, start |-> <<1, 5>>, end |-> <<1, 6>>],
      [type |-> "trailer", value |-> "", leaf |-> FALSE, parent |-> 3, children |-> <<10, 11, 12>>, start |-> <<1, 6>>, end |-> <<1, 9>>],
      [type |-> "operator", value |-> "(", leaf |-> TRUE, parent |-> 9, children |-> <<>>, start |-> <<1, 6>>, end |-> <<1, 7>>],
      [type |-> "name", value |-> "b", leaf |-> TRUE, parent |-> 9, children |-> <<>>, start |-> <<1, 7>>, end |-> <<1, 8>>],
      [type |-> "operator", value |-> ")", leaf |-> TRUE, parent |-> 9, children |-> <<>>, start |-> <<1, 8>>, end |-> <<1, 9>>],
      [type |-> "newline", value |-> "\n", leaf |-> TRUE, parent |-> 2, children |-> <<>>, start |-> <<1, 9>>, end |-> <<2, 0>>],
      [type |-> "endmarker", value |-> "", leaf |-> TRUE, parent |-> 1, children |-> <<>>, start |-> <<2, 0>>, end |-> <<2, 0>>]
    >> ]

\* foo  (a)
DocSpaced ==
  [ lines |-> <<<<"f", "o", "o", " ", " ", "(", "a", ")">>, <<>>>>,
    nodes |-> <<
      [type |-> "file_input", value |-> "", leaf |-> FALSE, parent |-> 0, children |-> <<2, 10>>, start |-> <<1, 0>>, end |-> <<2, 0>>],
      [type |-> "simple_stmt", value |-> "", leaf |-> FALSE, parent |-> 1, children |-> <<3, 9>>, start |-> <<1, 0>>, end |-> <<2, 0>>],
      [type |-> "power", value |-> "", leaf |-> FALSE, parent |-> 2, children |-> <<4, 5>>, start |-> <<1, 0>>, end |-> <<1, 8>>],
      [type |-> "name", value |-> "foo", leaf |-> TRUE, parent |-> 3, children |-> <<>>, start |-> <<1, 0>>, end |-> <<1, 3>>],
      [type |-> "trailer", value |-> "", leaf |-> FALSE, parent |-> 3, children |-> <<6, 7, 8>>, start |-> <<1, 5>>, end |-> <<1, 8>>],
      [type |-> "operator", value |-> "(", leaf |-> TRUE, parent |-> 5, children |-> <<>>, start |-> <<1, 5>>, end |-> <<1, 6>>],
      [type |-> "name", value |-> "a", leaf |-> TRUE, parent |-> 5, children |-> <<>>, start |-> <<1, 6>>, end |-> <<1, 7>>],
      [type |-> "operator", value |-> ")", leaf |-> TRUE, parent |-> 5, children |-> <<>>, start |-> <<1, 7>>, end |-> <<1, 8>>],
      [type |-> "newline", value |-> "\n", leaf |-> TRUE, parent |-> 2, children |-> <<>>, start |-> <<1, 8>>, end |-> <<2, 0>>],
      [type |-> "endmarker", value |-> "", leaf |-> TRUE, parent |-> 1, children |-> <<>>, start |-> <<2, 0>>, end |-> <<2, 0>>]
    >> ]

\* def f(a, b): pass
DocFuncdef ==
  [ lines |-> <<<<"d", "e", "f", " ", "f", "(", "a", ",", " ", "b", ")", ":", " ", "p", "a", "s", "s">>, <<>>>>,
    nodes |-> <<
      [type |-> "file_input", value |-> "", leaf |-> FALSE, parent |-> 0, children |-> <<2, 17>>, start |-> <<1, 0>>, end |-> <<2, 0>>],
      [type |-> "funcdef", value |-> "", leaf |-> FALSE, parent |-> 1, children |-> <<3, 4, 5, 13, 14>>, start |-> <<1, 0>>, end |-> <<2, 0>>],
      [type |-> "keyword", value |-> "def", leaf |-> TRUE, parent |-> 2, children |-> <<>>, start |-> <<1, 0>>, end |-> <<1, 3>>],
      [type |-> "name", value |-> "f", leaf |-> TRUE, parent |-> 2, children |-> <<>>, start |-> <<1, 4>>, end |-> <<1, 5>>],
      [type |-> "parameters", value |-> "", leaf |-> FALSE, parent |-> 2, children |-> <<6, 7, 10, 12>>, start |-> <<1, 5>>, end |-> <<1, 11>>],
      [type |-> "operator", value |-> "(", leaf |-> TRUE, parent |-> 5, children |-> <<>>, start |-> <<1, 5>>, end |-> <<1, 6>>],
      [type |-> "param", value |-> "", leaf |-> FALSE, parent |-> 5, children |-> <<8, 9>>, start |-> <<1, 6>>, end |-> <<1, 8>>],
      [type |-> "name", value |-> "a", leaf |-> TRUE, parent |-> 7, children |-> <<>>, start |-> <<1, 6>>, end |-> <<1, 7>>],
      [type |-> "operator", value |-> ",", leaf |-> TRUE, parent |-> 7, children |-> <<>>, start |-> <<1, 7>>, end |-> <<1, 8>>],
      [type |-> "param", value |-> "", leaf |-> FALSE, parent |-> 5, children |-> <<11>>, start |-> <<1, 9>>, end |-> <<1, 10>>],
      [type |-> "name", value |-> "b", leaf |-> TRUE, parent |-> 10, children |-> <<>>, start |-> <<1, 9>>, end |-> <<1, 10>>],
      [type |-> "operator", value |-> ")", leaf |-> TRUE, parent |-> 5, children |-> <<>>, start |-> <<1, 10>>, end |-> <<1, 11>>],
      [type |-> "operator", value |-> ":", leaf |-> TRUE, parent |-> 2, children |-> <<>>, start |-> <<1, 11>>, end |-> <<1, 12>>],
      [type |-> "simple_stmt", value |-> "", leaf |-> FALSE, parent |-> 2, children |-> <<15, 16>>, start |-> <<1, 13>>, end |-> <<2, 0>>],
      [type |-> "keyword", value |-> "pass", leaf |-> TRUE, parent |-> 14, children |-> <<>>, start |-> <<1, 13>>, end |-> <<1, 17>>],
      [type |-> "newline", value |-> "\n", leaf |-> TRUE, parent |-> 14, children |-> <<>>, start |-> <<1, 17>>, end |-> <<2, 0>>],
      [type |-> "endmarker", value |-> "", leaf |-> TRUE, parent |-> 1, children |-> <<>>, start |-> <<2, 0>>, end |-> <<2, 0>>]
    >> ]

\* class X(Base): pass
DocClassdef ==
  [ lines |-> <<<<"c", "l", "a", "s", "s", " ", "X", "(", "B", "a", "s", "e", ")", ":", " ", "p", "a", "s", "s">>, <<>>>>,
    nodes |-> <<
      [type |-> "file_input", value |-> "", leaf |-> FALSE, parent |-> 0, children |-> <<2, 12>>, start |-> <<1, 0>>, end |-> <<2, 0>>],
      [type |-> "classdef", value |-> "", leaf |-> FALSE, parent |-> 1, children |-> <<3, 4, 5, 6, 7, 8, 9>>, start |-> <<1, 0>>, end |-> <<2, 0>>],
      [type |-> "keyword", value |-> "class", leaf |-> TRUE, parent |-> 2, children |-> <<>>, start |-> <<1, 0>>, end |-> <<1, 5>>],
      [type |-> "name", value |-> "X", leaf |-> TRUE, parent |-> 2, children |-> <<>>, start |-> <<1, 6>>, end |-> <<1, 7>>],
      [type |-> "operator", value |-> "(", leaf |-> TRUE, parent |-> 2, children |-> <<>>, start |-> <<1, 7>>, end |-> <<1, 8>>],
      [type |-> "name", value |-> "Base", leaf |-> TRUE, parent |-> 2, children |-> <<>>, start |-> <<1, 8>>, end |-> <<1, 12>>],
      [type |-> "operator", value |-> ")", leaf |-> TRUE, parent |-> 2, children |-> <<>>, start |-> <<1, 12>>, end |-> <<1, 13>>],
      [type |-> "operator", value |-> ":", leaf |-> TRUE, parent |-> 2, children |-> <<>>, start |-> <<1, 13>>, end |-> <<1, 14>>],
      [type |-> "simple_stmt", value |-> "", leaf |-> FALSE, parent |-> 2, children |-> <<10, 11>>, start |-> <<1, 15>>, end |-> <<2, 0>>],
      [type |-> "keyword", value |-> "pass", leaf |-> TRUE, parent |-> 9, children |-> <<>>, start |-> <<1, 15>>, end |-> <<1, 19>>],
      [type |-> "newline", value |-> "\n", leaf |-> TRUE, parent |-> 9, children |-> <<>>, start |-> <<1, 19>>, end |-> <<2, 0>>],
      [type |-> "endmarker", value |-> "", leaf |-> TRUE, parent |-> 1, children |-> <<>>, start |-> <<2, 0>>, end |-> <<2, 0>>]
    >> ]

\* foo(1  2 bar(
DocTwoErrors ==
  [ lines |-> <<<<"f", "o", "o", "(", "1", " ", " ", "2", " ", "b", "a", "r", "(">>>>,
    nodes |-> <<
      [type |-> "file_input", value |-> "", leaf |-> FALSE, parent |-> 0, children |-> <<2, 6, 8, 11>>, start |-> <<1, 0>>, end |-> <<1, 13>>],
      [type |-> "error_node", value |-> "", leaf |-> FALSE, parent |-> 1, children |-> <<3, 4, 5>>, start |-> <<1, 0>>, end |-> <<1, 5>>],
      [type |-> "name", value |-> "foo", leaf |-> TRUE, parent |-> 2, children |-> <<>>, start |-> <<1, 0>>, end |-> <<1, 3>>],
      [type |-> "operator", value |-> "(", leaf |-> TRUE, parent |-> 2, children |-> <<>>, start |-> <<1, 3>>, end |-> <<1, 4>>],
      [type |-> "number", value |-> "1", leaf |-> TRUE, parent |-> 2, children |-> <<>>, start |-> <<1, 4>>, end |-> <<1, 5>>],
      [type |-> "error_node", value |-> "", leaf |-> FALSE, parent |-> 1, children |-> <<7>>, start |-> <<1, 7>>, end |-> <<1, 8>>],
      [type |-> "number", value |-> "2", leaf |-> TRUE, parent |-> 6, children |-> <<>>, start |-> <<1, 7>>, end |-> <<1, 8>>],
      [type |-> "error_node", value |-> "", leaf |-> FALSE, parent |-> 1, children |-> <<9, 10>>, start |-> <<1, 9>>, end |-> <<1, 13>>],
      [type |-> "name", value |-> "bar", leaf |-> TRUE, parent |-> 8, children |-> <<>>, start |-> <<1, 9>>, end |-> <<1, 12>>],
      [type |-> "operator", value |-> "(", leaf |-> TRUE, parent |-> 8, children |-> <<>>, start |-> <<1, 12>>, end |-> <<1, 13>>],
      [type |-> "endmarker", value |-> "", leaf |-> TRUE, parent |-> 1, children |-> <<>>, start |-> <<1, 13>>, end |-> <<1, 13>>]
    >> ]

\* foo('abc')
DocStringArg ==
  [ lines |-> <<<<"f", "o", "o", "(", "'", "a", "b", "c", "'", ")">>, <<>>>>,
    nodes |-> <<
      [type |-> "file_input", value |-> "", leaf |-> FALSE, parent |-> 0, children |-> <<2, 10>>, start |-> <<1, 0>>, end |-> <<2, 0>>],
      [type |-> "simple_stmt", value |-> "", leaf |-> FALSE, parent |-> 1, children |-> <<3, 9>>, start |-> <<1, 0>>, end |-> <<2, 0>>],
      [type |-> "power", value |-> "", leaf |-> FALSE, parent |-> 2, children |-> <<4, 5>>, start |-> <<1, 0>>, end |-> <<1, 10>>],
      [type |-> "name", value |-> "foo", leaf |-> TRUE, parent |-> 3, children |-> <<>>, start |-> <<1, 0>>, end |-> <<1, 3>>],
      [type |-> "trailer", value |-> "", leaf |-> FALSE, parent |-> 3, children |-> <<6, 7, 8>>, start |-> <<1, 3>>, end |-> <<1, 10>>],
      [type |-> "operator", value |-> "(", leaf |-> TRUE, parent |-> 5, children |-> <<>>, start |-> <<1, 3>>, end |-> <<1, 4>>],
      [type |-> "string", value |-> "'abc'", leaf |-> TRUE, parent |-> 5, children |-> <<>>, start |-> <<1, 4>>, end |-> <<1, 9>>],
      [type |-> "operator", value |-> ")", leaf |-> TRUE, parent |-> 5, children |-> <<>>, start |-> <<1, 9>>, end |-> <<1, 10>>],
      [type |-> "newline", value |-> "\n", leaf |-> TRUE, parent |-> 2, children |-> <<>>, start |-> <<1, 10>>, end |-> <<2, 0>>],
      [type |-> "endmarker", value |-> "", leaf |-> TRUE, parent |-> 1, children |-> <<>>, start |-> <<2, 0>>, end |-> <<2, 0>>]
    >> ]

\* 'abc'
DocString ==
  [ lines |-> <<<<"'", "a", "b", "c", "'">>, <<>>>>,
    nodes |-> <<
      [type |-> "file_input", value |-> "", leaf |-> FALSE, parent |-> 0, children |-> <<2, 5>>, start |-> <<1, 0>>, end |-> <<2, 0>>],
      [type |-> "simple_stmt", value |-> "", leaf |-> FALSE, parent |-> 1, children |-> <<3, 4>>, start |-> <<1, 0>>, end |-> <<2, 0>>],
      [type |-> "string", value |-> "'abc'", leaf |-> TRUE, parent |-> 2, children |-> <<>>, start |-> <<1, 0>>, end |-> <<1, 5>>],
      [type |-> "newline", value |-> "\n", leaf |-> TRUE, parent |-> 2, children |-> <<>>, start |-> <<1, 5>>, end |-> <<2, 0>>],
      [type |-> "endmarker", value |-> "", leaf |-> TRUE, parent |-> 1, children |-> <<>>, start |-> <<2, 0>>, end |-> <<2, 0>>]
    >> ]

\* x = 'abc'
DocAssignString ==
  [ lines |-> <<<<"x", " ", "=", " ", "'", "a", "b", "c", "'">>, <<>>>>,
    nodes |-> <<
      [type |-> "file_input", value |-> "", leaf |-> FALSE, parent |-> 0, children |-> <<2, 8>>, start |-> <<1, 0>>, end |-> <<2, 0>>],
      [type |-> "simple_stmt", value |-> "", leaf |-> FALSE, parent |-> 1, children |-> <<3, 7>>, start |-> <<1, 0>>, end |-> <<2, 0>>],
      [type |-> "expr_stmt", value |-> "", leaf |-> FALSE, parent |-> 2, children |-> <<4, 5, 6>>, start |-> <<1, 0>>, end |-> <<1, 9>>],
      [type |-> "name", value |-> "x", leaf |-> TRUE, parent |-> 3, children |-> <<>>, start |-> <<1, 0>>, end |-> <<1, 1>>],
      [type |-> "operator", value |-> "=", leaf |-> TRUE, parent |-> 3, children |-> <<>>, start |-> <<1, 2>>, end |-> <<1, 3>>],
      [type |-> "string", value |-> "'abc'", leaf |-> TRUE, parent |-> 3, children |-> <<>>, start |-> <<1, 4>>, end |-> <<1, 9>>],
      [type |-> "newline", value |-> "\n", leaf |-> TRUE, parent |-> 2, children |-> <<>>, start |-> <<1, 9>>, end |-> <<2, 0>>],
      [type |-> "endmarker", value |-> "", leaf |-> TRUE, parent |-> 1, children |-> <<>>, start |-> <<2, 0>>, end |-> <<2, 0>>]
    >> ]

\* foo(x for x in y)
DocGenerator ==
  [ lines |-> <<<<"f", "o", "o", "(", "x", " ", "f", "o", "r", " ", "x", " ", "i", "n", " ", "y", ")">>, <<>>>>,
    nodes |-> <<
      [type |-> "file_input", value |-> "", leaf |-> FALSE, parent |-> 0, children |-> <<2, 16>>, start |-> <<1, 0>>, end |-> <<2, 0>>],
      [type |-> "simple_stmt", value |-> "", leaf |-> FALSE, parent |-> 1, children |-> <<3, 15>>, start |-> <<1, 0>>, end |-> <<2, 0>>],
      [type |-> "power", value |-> "", leaf |-> FALSE, parent |-> 2, children |-> <<4, 5>>, start |-> <<1, 0>>, end |-> <<1, 17>>],
      [type |-> "name", value |-> "foo", leaf |-> TRUE, parent |-> 3, children |-> <<>>, start |-> <<1, 0>>, end |-> <<1, 3>>],
      [type |-> "trailer", value |-> "", leaf |-> FALSE, parent |-> 3, children |-> <<6, 7, 14>>, start |-> <<1, 3>>, end |-> <<1, 17>>],
      [type |-> "operator", value |-> "(", leaf |-> TRUE, parent |-> 5, children |-> <<>>, start |-> <<1, 3>>, end |-> <<1, 4>>],
      [type |-> "argument", value |-> "", leaf |-> FALSE, parent |-> 5, children |-> <<8, 9>>, start |-> <<1, 4>>, end |-> <<1, 16>>],
      [type |-> "name", value |-> "x", leaf |-> TRUE, parent |-> 7, children |-> <<>>, start |-> <<1, 4>>, end |-> <<1, 5>>],
      [type |-> "comp_for", value |-> "", leaf |-> FALSE, parent |-> 7, children |-> <<10, 11, 12, 13>>, start |-> <<1, 6>>, end |-> <<1, 16>>],
      [type |-> "keyword", value |-> "for", leaf |-> TRUE, parent |-> 9, children |-> <<>>, start |-> <<1, 6>>, end |-> <<1, 9>>],
      [type |-> "name", value |-> "x", leaf |-> TRUE, parent |-> 9, children |-> <<>>, start |-> <<1, 10>>, end |-> <<1, 11>>],
      [type |-> "keyword", value |-> "in", leaf |-> TRUE, parent |-> 9, children |-> <<>>, start |-> <<1, 12>>, end |-> <<1, 14>>],
      [type |-> "name", value |-> "y", leaf |-> TRUE, parent |-> 9, children |-> <<>>, start |-> <<1, 15>>, end |-> <<1, 16>>],
      [type |-> "operator", value |-> ")", leaf |-> TRUE, parent |-> 5, children |-> <<>>, start |-> <<1, 16>>, end |-> <<1, 17>>],
      [type |-> "newline", value |-> "\n", leaf |-> TRUE, parent |-> 2, children |-> <<>>, start |-> <<1, 17>>, end |-> <<2, 0>>],
      [type |-> "endmarker", value |-> "", leaf |-> TRUE, parent |-> 1, children |-> <<>>, start |-> <<2, 0>>, end |-> <<2, 0>>]
    >> ]

\* foo(a.b=
DocDottedKeyword ==
  [ lines |-> <<<<"f", "o", "o", "(", "a", ".", "b", "=">>>>,
    nodes |-> <<
      [type |-> "file_input", value |-> "", leaf |-> FALSE, parent |-> 0, children |-> <<2, 11>>, start |-> <<1, 0>>, end |-> <<1, 8>>],
      [type |-> "error_node", value |-> "", leaf |-> FALSE, parent |-> 1, children |-> <<3, 4, 5, 10>>, start |-> <<1, 0>>, end |-> <<1, 8>>],
      [type |-> "name", value |-> "foo", leaf |-> TRUE, parent |-> 2, children |-> <<>>, start |-> <<1, 0>>, end |-> <<1, 3>>],
      [type |-> "operator", value |-> "(", leaf |-> TRUE, parent |-> 2, children |-> <<>>, start |-> <<1, 3>>, end |-> <<1, 4>>],
      [type |-> "power", value |-> "", leaf |-> FALSE, parent |-> 2, children |-> <<6, 7>>, start |-> <<1, 4>>, end |-> <<1, 7>>],
      [type |-> "name", value |-> "a", leaf |-> TRUE, parent |-> 5, children |-> <<>>, start |-> <<1, 4>>, end |-> <<1, 5>>],
      [type |-> "trailer", value |-> "", leaf |-> FALSE, parent |-> 5, children |-> <<8, 9>>, start |-> <<1, 5>>, end |-> <<1, 7>>],
      [type |-> "operator", value |-> ".", leaf |-> TRUE, parent |-> 7, children |-> <<>>, start |-> <<1, 5>>, end |-> <<1, 6>>],
      [type |-> "name", value |-> "b", leaf |-> TRUE, parent |-> 7, children |-> <<>>, start |-> <<1, 6>>, end |-> <<1, 7>>],
      [type |-> "operator", value |-> "=", leaf |-> TRUE, parent |-> 2, children |-> <<>>, start |-> <<1, 7>>, end |-> <<1, 8>>],
      [type |-> "endmarker", value |-> "", leaf |-> TRUE, parent |-> 1, children |-> <<>>, start |-> <<1, 8>>, end |-> <<1, 8>>]
    >> ]

\* foo(a, b c
DocArglistError ==
  [ lines |-> <<<<"f", "o", "o", "(", "a", ",", " ", "b", " ", "c">>>>,
    nodes |-> <<
      [type |-> "file_input", value |-> "", leaf |-> FALSE, parent |-> 0, children |-> <<2, 9, 11>>, start |-> <<1, 0>>, end |-> <<1, 10>>],
      [type |-> "error_node", value |-> "", leaf |-> FALSE, parent |-> 1, children |-> <<3, 4, 5>>, start |-> <<1, 0>>, end |-> <<1, 8>>],
      [type |-> "name", value |-> "foo", leaf |-> TRUE, parent |-> 2, children |-> <<>>, start |-> <<1, 0>>, end |-> <<1, 3>>],
      [type |-> "operator", value |-> "(", leaf |-> TRUE, parent |-> 2, children |-> <<>>, start |-> <<1, 3>>, end |-> <<1, 4>>],
      [type |-> "arglist", value |-> "", leaf |-> FALSE, parent |-> 2, children |-> <<6, 7, 8>>, start |-> <<1, 4>>, end |-> <<1, 8>>],
      [type |-> "name", value |-> "a", leaf |-> TRUE, parent |-> 5, children |-> <<>>, start |-> <<1, 4>>, end |-> <<1, 5>>],
      [type |-> "operator", value |-> ",", leaf |-> TRUE, parent |-> 5, children |-> <<>>, start |-> <<1, 5>>, end |-> <<1, 6>>],
      [type |-> "name", value |-> "b", leaf |-> TRUE, parent |-> 5, children |-> <<>>, start |-> <<1, 7>>, end |-> <<1, 8>>],
      [type |-> "error_node", value |-> "", leaf |-> FALSE, parent |-> 1, children |-> <<10>>, start |-> <<1, 9>>, end |-> <<1, 10>>],
      [type |-> "name", value |-> "c", leaf |-> TRUE, parent |-> 9, children |-> <<>>, start |-> <<1, 9>>, end |-> <<1, 10>>],
      [type |-> "endmarker", value |-> "", leaf |-> TRUE, parent |-> 1, children |-> <<>>, start |-> <<1, 10>>, end |-> <<1, 10>>]
    >> ]

\* foo( / a   (two lines)
DocFooNextLine ==
  [ lines |-> <<<<"f", "o", "o", "(">>, <<"a">>>>,
    nodes |-> <<
      [type |-> "file_input", value |-> "", leaf |-> FALSE, parent |-> 0, children |-> <<2, 6>>, start |-> <<1, 0>>, end |-> <<2, 1>>],
      [type |-> "error_node", value |-> "", leaf |-> FALSE, parent |-> 1, children |-> <<3, 4, 5>>, start |-> <<1, 0>>, end |-> <<2, 1>>],
      [type |-> "name", value |-> "foo", leaf |-> TRUE, parent |-> 2, children |-> <<>>, start |-> <<1, 0>>, end |-> <<1, 3>>],
      [type |-> "operator", value |-> "(", leaf |-> TRUE, parent |-> 2, children |-> <<>>, start |-> <<1, 3>>, end |-> <<1, 4>>],
      [type |-> "name", value |-> "a", leaf |-> TRUE, parent |-> 2, children |-> <<>>, start |-> <<2, 0>>, end |-> <<2, 1>>],
      [type |-> "endmarker", value |-> "", leaf |-> TRUE, parent |-> 1, children |-> <<>>, start |-> <<2, 1>>, end |-> <<2, 1>>]
    >> ]

\* bar( / a   (two lines)
DocBarNextLine ==
  [ lines |-> <<<<"b", "a", "r", "(">>, <<"a">>>>,
    nodes |-> <<
      [type |-> "file_input", value |-> "", leaf |-> FALSE, parent |-> 0, children |-> <<2, 6>>, start |-> <<1, 0>>, end |-> <<2, 1>>],
      [type |-> "error_node", value |-> "", leaf |-> FALSE, parent |-> 1, children |-> <<3, 4, 5>>, start |-> <<1, 0>>, end |-> <<2, 1>>],
      [type |-> "name", value |-> "bar", leaf |-> TRUE, parent |-> 2, children |-> <<>>, start |-> <<1, 0>>, end |-> <<1, 3>>],
      [type |-> "operator", value |-> "(", leaf |-> TRUE, parent |-> 2, children |-> <<>>, start |-> <<1, 3>>, end |-> <<1, 4>>],
      [type |-> "name", value |-> "a", leaf |-> TRUE, parent |-> 2, children |-> <<>>, start |-> <<2, 0>>, end |-> <<2, 1>>],
      [type |-> "endmarker", value |-> "", leaf |-> TRUE, parent |-> 1, children |-> <<>>, start |-> <<2, 1>>, end |-> <<2, 1>>]
    >> ]

\* a;b
DocSemicolon ==
  [ lines |-> <<<<"a", ";", "b">>, <<>>>>,
    nodes |-> <<
      [type |-> "file_input", value |-> "", leaf |-> FALSE, parent |-> 0, children |-> <<2, 7>>, start |-> <<1, 0>>, end |-> <<2, 0>>],
      [type |-> "simple_stmt", value |-> "", leaf |-> FALSE, parent |-> 1, children |-> <<3, 4, 5, 6>>, start |-> <<1, 0>>, end |-> <<2, 0>>],
      [type |-> "name", value |-> "a", leaf |-> TRUE, parent |-> 2, children |-> <<>>, start |-> <<1, 0>>, end |-> <<1, 1>>],
      [type |-> "operator", value |-> ";", leaf |-> TRUE, parent |-> 2, children |-> <<>>, start |-> <<1, 1>>, end |-> <<1, 2>>],
      [type |-> "name", value |-> "b", leaf |-> TRUE, parent |-> 2, children |-> <<>>, start |-> <<1, 2>>, end |-> <<1, 3>>],
      [type |-> "newline", value |-> "\n", leaf |-> TRUE, parent |-> 2, children |-> <<>>, start |-> <<1, 3>>, end |-> <<2, 0>>],
      [type |-> "endmarker", value |-> "", leaf |-> TRUE, parent |-> 1, children |-> <<>>, start |-> <<2, 0>>, end |-> <<2, 0>>]
    >> ]

DocumentSet ==
  { DocFooOpen,
    DocKeyword,
    DocNested,
    DocDefOpen,
    DocOpenString,
    DocCall,
    DocCallTwice,
    DocSpaced,
    DocFuncdef,
    DocClassdef,
    DocTwoErrors,
    DocStringArg,
    DocString,
    DocAssignString,
    DocGenerator,
    DocDottedKeyword,
    DocArglistError,
    DocFooNextLine,
    DocBarNextLine,
    DocSemicolon }

(***************************************************************************)
(* The syntax tree's interface (jedi.parser.tree)                          *)
(***************************************************************************)

Type(d, n) == d.nodes[n].type

Value(d, n) == d.nodes[n].value

IsLeaf(d, n) == d.nodes[n].leaf

Parent(d, n) == d.nodes[n].parent

Children(d, n) == d.nodes[n].children

StartPos(d, n) == d.nodes[n].start

EndPos(d, n) == d.nodes[n].end

\* the module is the tree's root, its first node
Module(d) == 1

\* Operator.__eq__: an operator leaf equals the string that is its value;
\* every other node equals only itself
IsOp(d, n, s) == Type(d, n) = "operator" /\ Value(d, n) = s

\* the place of node n among its parent's children
ChildIndex(d, n) ==
  CHOOSE i \in 1 .. Len(Children(d, Parent(d, n))) : Children(d, Parent(d, n))[i] = n

RECURSIVE FirstLeaf(_, _)
FirstLeaf(d, n) == IF IsLeaf(d, n) THEN n ELSE FirstLeaf(d, Children(d, n)[1])

RECURSIVE LastLeaf(_, _)
LastLeaf(d, n) == IF IsLeaf(d, n) THEN n ELSE LastLeaf(d, Last(Children(d, n)))

\* get_previous_leaf: up to the first ancestor that has an earlier sibling,
\* then down that sibling's last children; 0 stands for the IndexError it
\* raises at the first leaf of the tree
RECURSIVE get_previous_leaf(_, _)
get_previous_leaf(d, n) ==
  IF Parent(d, n) = 0 THEN 0
  ELSE IF ChildIndex(d, n) = 1 THEN get_previous_leaf(d, Parent(d, n))
  ELSE LastLeaf(d, Children(d, Parent(d, n))[ChildIndex(d, n) - 1])

\* get_next_leaf: the mirror image; 0 stands for IndexError
RECURSIVE get_next_leaf(_, _)
get_next_leaf(d, n) ==
  IF Parent(d, n) = 0 THEN 0
  ELSE IF ChildIndex(d, n) = Len(Children(d, Parent(d, n)))
  THEN get_next_leaf(d, Parent(d, n))
  ELSE FirstLeaf(d, Children(d, Parent(d, n))[ChildIndex(d, n) + 1])

\* get_leaf_for_position(pos, include_prefixes=True) below node n: the
\* binary search picks the first child that ends at or after pos and
\* descends into it; the whitespace before a leaf belongs to that leaf
RECURSIVE LeafBelow(_, _, _)
LeafBelow(d, n, pos) ==
  IF IsLeaf(d, n) THEN n
  ELSE LeafBelow(d,
         Children(d, n)[CHOOSE i \in 1 .. Len(Children(d, n)) :
                          /\ PosLE(pos, EndPos(d, Children(d, n)[i]))
                          /\ \A j \in 1 .. (i - 1) :
                               ~PosLE(pos, EndPos(d, Children(d, n)[j]))],
         pos)

get_leaf_for_position(d, pos) == LeafBelow(d, Module(d), pos)

\* the node types get_statement_for_position looks into rather than returns
Containers ==
  { "decorated", "simple_stmt", "suite", "funcdef", "classdef",
    "if_stmt", "while_stmt", "for_stmt", "try_stmt", "with_stmt" }

\* get_statement_for_position: the first child that spans pos, or what its
\* own search gives when it is a container; 0 (None) when no child spans pos
RECURSIVE get_statement_for_position(_, _, _)
get_statement_for_position(d, n, pos) ==
  LET cs   == Children(d, n)
      over == { i \in 1 .. Len(cs) :
                  PosLE(StartPos(d, cs[i]), pos) /\ PosLE(pos, EndPos(d, cs[i])) }
  IN  IF over = {} THEN 0
      ELSE LET c == cs[CHOOSE i \in over : \A j \in over : i <= j]
           IN  IF Type(d, c) \in Containers /\ ~IsLeaf(d, c)
               THEN get_statement_for_position(d, c, pos)
               ELSE c

\* the positions of a document: every column of every line
Positions(d) ==
  UNION { { << l, c >> : c \in 0 .. Len(d.lines[l]) } :
          l \in 1 .. Len(d.lines) }

(***************************************************************************)
(* get_call_signature_details                                              *)
(***************************************************************************)

NoKey == << >>

NoResult ==
  [kind |-> "none", bracket |-> 0, index |-> 0, key |-> NoKey, exc |-> ""]

NoDetails ==
  [kind |-> "None", bracket |-> 0, index |-> 0, key |-> NoKey, exc |-> ""]

CallSignatureDetails(bracket_leaf, call_index, keyword_name_str) ==
  [kind |-> "details", bracket |-> bracket_leaf, index |-> call_index,
   key |-> keyword_name_str, exc |-> ""]

Raised(e) ==
  [kind |-> "raised", bracket |-> 0, index |-> 0, key |-> NoKey, exc |-> e]

\* a slip in the comparison: the nodes that start at or before the position
NodesBeforeOrAt(d, nodes, position) ==
  SelectSeq(nodes, LAMBDA c : PosLE(StartPos(d, c), position))

\* [c for c in nodes if c.start_pos < position]
NodesBefore(d, nodes, position) ==
  SelectSeq(nodes, LAMBDA c : PosLT(StartPos(d, c), position))

\* nodes_before.count(',')
CountCommas(d, nodes) == Len(SelectSeq(nodes, LAMBDA c : IsOp(d, c, ",")))

\* x.value as a keyword name; only a leaf has a value
ValueOf(d, n) == << Value(d, n) >>

\* a slip in the comparison: the '=' must end strictly before the position
ArgumentEndsBeforeStrict(d, last, position) ==
  /\ Type(d, last) = "argument"
  /\ PosLT(EndPos(d, Children(d, last)[2]), position)

\* last.type == 'argument' and last.children[1].end_pos <= position
ArgumentEndsBefore(d, last, position) ==
  /\ Type(d, last) = "argument"
  /\ PosLE(EndPos(d, Children(d, last)[2]), position)

\* _get_index_and_key: [exc, index, key]; exc is "" when it returns
get_index_and_key(d, nodes, position) ==
  LET all == NodesBefore(d, nodes, position)
  IN  IF all = << >>
      THEN [exc |-> "IndexError", index |-> 0, key |-> NoKey]     \* nodes_before[-1]
      ELSE
        LET nodes_before ==
              IF Type(d, Last(all)) = "arglist"
              THEN NodesBefore(d, Children(d, Last(all)), position)
              ELSE all
            count == CountCommas(d, nodes_before)
            last  == Last(nodes_before)
        IN  IF nodes_before = << >>
            THEN [exc |-> "", index |-> count, key |-> NoKey]
            ELSE IF ArgumentEndsBefore(d, last, position)
            THEN IF ~IsLeaf(d, Children(d, last)[1])
                 THEN [exc |-> "AttributeError", index |-> 0, key |-> NoKey]
                 ELSE [exc |-> "", index |-> count,
                       key |-> ValueOf(d, Children(d, last)[1])]
            ELSE IF IsOp(d, last, "=")
            THEN IF Len(nodes_before) < 2
                 THEN [exc |-> "IndexError", index |-> 0, key |-> NoKey]
                 ELSE IF ~IsLeaf(d, nodes_before[Len(nodes_before) - 1])
                 THEN [exc |-> "AttributeError", index |-> 0, key |-> NoKey]
                 ELSE [exc |-> "", index |-> count,
                       key |-> ValueOf(d, nodes_before[Len(nodes_before) - 1])]
            ELSE [exc |-> "", index |-> count, key |-> NoKey]

\* CallSignatureDetails(bracket, *_get_index_and_key(children, position))
DetailsFor(d, bracket, children, position) ==
  LET r == get_index_and_key(d, children, position)
  IN  IF r.exc # "" THEN Raised(r.exc)
      ELSE CallSignatureDetails(bracket, r.index, r.key)

\* name.type == 'name' or name.parent.type in ('trailer', 'atom')
IsCallee(d, name) ==
  \/ Type(d, name) = "name"
  \/ Type(d, Parent(d, name)) \in { "trailer", "atom" }

\* the loop of _get_call_signature_details_from_error_node from child number
\* index down to the first (index is Python's index + 1)
RECURSIVE FromErrorNodeAt(_, _, _, _)
FromErrorNodeAt(d, node, position, index) ==
  IF index < 1 THEN NoDetails
  ELSE
    LET element == Children(d, node)[index]
    IN  IF /\ IsOp(d, element, "(")
           /\ PosLE(EndPos(d, element), position)
           /\ index > 1
           /\ IsCallee(d, get_previous_leaf(d, element))
        THEN DetailsFor(d, element,
                        SubSeq(Children(d, node), index, Len(Children(d, node))),
                        position)
        ELSE FromErrorNodeAt(d, node, position, index - 1)

get_call_signature_details_from_error_node(d, node, position) ==
  FromErrorNodeAt(d, node, position, Len(Children(d, node)))

\* `for n in node.children`: the first error node that starts before the
\* position and yields a result ends the loop
RECURSIVE ScanErrorNodes(_, _, _)
ScanErrorNodes(d, ns, position) ==
  IF ns = << >> THEN NoDetails
  ELSE
    LET n == ns[1]
    IN  IF PosLT(StartPos(d, n), position) /\ Type(d, n) = "error_node"
        THEN LET result == get_call_signature_details_from_error_node(d, n, position)
             IN  IF result.kind # "None" THEN result
                 ELSE ScanErrorNodes(d, Tail(ns), position)
        ELSE ScanErrorNodes(d, Tail(ns), position)

\* `while node is not None`
RECURSIVE Ascend(_, _, _)
Ascend(d, node, position) ==
  IF node = 0 THEN NoDetails
  ELSE IF Type(d, node) \in { "funcdef", "classdef" } THEN NoDetails
  ELSE
    LET result == ScanErrorNodes(d, Children(d, node), position)
    IN  IF result.kind # "None" THEN result
        ELSE IF Type(d, node) = "trailer" /\ IsOp(d, Children(d, node)[1], "(")
        THEN IF get_previous_leaf(d, node) = 0 THEN Raised("IndexError")
             ELSE DetailsFor(d, Children(d, node)[1], Children(d, node), position)
        ELSE Ascend(d, Parent(d, node), position)

\* the leaf the ascent starts from: after a ')' that ends at the position,
\* the next leaf (0: get_next_leaf raised IndexError)
StartLeaf(d, position) ==
  LET leaf == get_leaf_for_position(d, position)
  IN  IF IsOp(d, leaf, ")") /\ EndPos(d, leaf) = position
      THEN get_next_leaf(d, leaf)
      ELSE leaf

get_call_signature_details(d, position) ==
  IF StartLeaf(d, position) = 0 THEN Raised("IndexError")
  ELSE Ascend(d, Parent(d, StartLeaf(d, position)), position)

(***************************************************************************)
(* get_stack_at_position                                                   *)
(***************************************************************************)

\* _get_code: << >> when lines[-1] raises IndexError on an empty slice,
\* otherwise << the code >>
get_code(code_lines, start_pos, end_pos) ==
  LET lines == PySlice(code_lines, start_pos[1] - 1, end_pos[1])
  IN  IF lines = << >> THEN << >>
      ELSE
        LET cut   == [lines EXCEPT ![Len(lines)] = PySlice(@, 0, end_pos[2])]
            cut2  == [cut EXCEPT ![1] = PySlice(@, start_pos[2], Len(@))]
        IN  << Join(cut2) >>

NoStack ==
  [outcome |-> "none", node |-> 0, code |-> << >>, parsed |-> FALSE]

\* the statement get_stack_at_position settles on before it looks at its
\* type; 0 when that is None
UserStmt(d, pos) ==
  LET first == get_statement_for_position(d, Module(d), pos)
      stmt  == IF first = 0 THEN get_leaf_for_position(d, pos) ELSE first
  IN  IF PosLE(pos, StartPos(d, stmt)) /\ get_previous_leaf(d, stmt) # 0
      THEN get_statement_for_position(
             d, Module(d), StartPos(d, get_previous_leaf(d, stmt)))
      ELSE stmt

\* the code handed to the parser: ';' becomes '', then strip('\t ')
ParsedCode(code) == Strip(IF code = << ";" >> THEN << >> ELSE code)

\* a slip: only the error leaf is refused
IsErrorLeafOnly(d, user_stmt) == Type(d, user_stmt) = "error_leaf"

\* user_stmt.type == 'error_leaf' or user_stmt.type == 'string'
IsErrorLeafOrString(d, user_stmt) ==
  Type(d, user_stmt) = "error_leaf" \/ Type(d, user_stmt) = "string"

\* get_stack_at_position up to the parser: it raises OnErrorLeaf, or drives
\* the parser over the code before the cursor and returns the parser's stack
get_stack_at_position(d, pos) ==
  LET first == get_statement_for_position(d, Module(d), pos)
  IN  IF first # 0 /\ Type(d, first) \in { "indent", "dedent" }
      THEN [outcome |-> "Stack", node |-> first, code |-> << >>, parsed |-> TRUE]
      ELSE
        LET user_stmt == UserStmt(d, pos)
        IN  IF user_stmt = 0
            THEN [outcome |-> "AttributeError", node |-> 0, code |-> << >>,
                  parsed |-> FALSE]
            ELSE IF IsErrorLeafOrString(d, user_stmt)
            THEN [outcome |-> "OnErrorLeaf", node |-> user_stmt, code |-> << >>,
                  parsed |-> FALSE]
            ELSE
              LET code == get_code(d.lines, StartPos(d, user_stmt), pos)
              IN  IF code = << >>
                  THEN [outcome |-> "IndexError", node |-> user_stmt, code |-> << >>,
                        parsed |-> FALSE]
                  ELSE [outcome |-> "Stack", node |-> user_stmt,
                        code |-> ParsedCode(code[1]), parsed |-> TRUE]

(***************************************************************************)
(* The editor: a document is opened, the cursor moves, and the two         *)
(* requests are made at the cursor.                                        *)
(***************************************************************************)

\* before_bracket when the pattern does not match
NoMatch == [id |-> 0, text |-> << >>]

\* module_path when the module has no path
NoPath == << >>

\* the key None, under which time_cache stores nothing
NoneKey == [none |-> TRUE, path |-> NoPath, match |-> NoMatch, pos |-> << 0, 0 >>]

\* what the evaluator is asked to resolve stands for what it resolves to
NoValue == [how |-> "", what |-> << >>]

NoRequest ==
  [made |-> FALSE, key |-> NoneKey, hit |-> FALSE, returned |-> NoValue, fresh |-> NoValue]

IdleCache ==
  /\ dct = {}
  /\ now = 0
  /\ requests = 0
  /\ lastRequest = NoRequest

IdleWalk ==
  /\ stack = << >>
  /\ calls = << >>
  /\ keywords = << >>
  /\ grammar_labels = << >>
  /\ outcome = "idle"
  /\ scans = << >>
  /\ expansions = << >>

IdleEditor ==
  /\ module = DocFooOpen
  /\ cursor = << 1, 0 >>
  /\ sigResult = NoResult
  /\ stackResult = NoStack

Init ==
  /\ module \in DocumentSet
  /\ cursor = << 1, 0 >>
  /\ sigResult = NoResult
  /\ stackResult = NoStack
  /\ IdleCache
  /\ IdleWalk

OpenDocument(d) ==
  /\ d # module
  /\ module' = d
  /\ cursor' = << 1, 0 >>
  /\ sigResult' = NoResult
  /\ stackResult' = NoStack
  /\ UNCHANGED << cacheVars, walkVars >>

MoveCursor(p) ==
  /\ p # cursor
  /\ cursor' = p
  /\ sigResult' = NoResult
  /\ stackResult' = NoStack
  /\ UNCHANGED << module, cacheVars, walkVars >>

CallSignatures ==
  /\ sigResult.kind = "none"
  /\ sigResult' = get_call_signature_details(module, cursor)
  /\ UNCHANGED << module, cursor, stackResult, cacheVars, walkVars >>

StackAtPosition ==
  /\ stackResult.outcome = "none"
  /\ stackResult' = get_stack_at_position(module, cursor)
  /\ UNCHANGED << module, cursor, sigResult, cacheVars, walkVars >>

Next ==
  \/ \E d \in DocumentSet : OpenDocument(d)
  \/ \E p \in Positions(module) : MoveCursor(p)
  \/ CallSignatures
  \/ StackAtPosition

Spec == Init /\ [][Next]_vars


(***************************************************************************)
(* What the specification says of the call-signature extractor, stated     *)
(* over the tree alone                                                     *)
(***************************************************************************)

ChildSet(d, n) == { Children(d, n)[i] : i \in 1 .. Len(Children(d, n)) }

LeafSet(d) == { n \in 1 .. Len(d.nodes) : IsLeaf(d, n) }

\* the siblings that follow the bracket under its parent
SiblingsAfter(d, bracket) ==
  { Children(d, Parent(d, bracket))[i] :
      i \in (ChildIndex(d, bracket) + 1) .. Len(Children(d, Parent(d, bracket))) }

\* the arguments of the bracket: its following siblings, or the children of
\* the arglist among them
ArgumentNodes(d, bracket) ==
  LET lists == { s \in SiblingsAfter(d, bracket) : Type(d, s) = "arglist" }
  IN  IF lists = {} THEN SiblingsAfter(d, bracket)
      ELSE UNION { ChildSet(d, a) : a \in lists }

\* the number of commas among them that start strictly before the position
CommasBefore(d, bracket, position) ==
  Cardinality({ s \in ArgumentNodes(d, bracket) :
                  IsOp(d, s, ",") /\ PosLT(StartPos(d, s), position) })

\* the arguments that start before the position, and the last of them
StartedBefore(d, bracket, position) ==
  { s \in ArgumentNodes(d, bracket) : PosLT(StartPos(d, s), position) }

LastStarted(d, bracket, position) ==
  CHOOSE s \in StartedBefore(d, bracket, position) :
    \A t \in StartedBefore(d, bracket, position) :
      PosLE(StartPos(d, t), StartPos(d, s))

IsKeywordArgument(d, n) ==
  /\ Type(d, n) = "argument"
  /\ Len(Children(d, n)) = 3
  /\ IsOp(d, Children(d, n)[2], "=")

\* the keyword name as the specification words it: a name=value argument
\* whose value ends at or before the position, or a bare '='
KeywordAsSpecified(d, bracket, position) ==
  IF StartedBefore(d, bracket, position) = {} THEN NoKey
  ELSE
    LET last == LastStarted(d, bracket, position)
    IN  IF /\ IsKeywordArgument(d, last)
           /\ PosLE(EndPos(d, Children(d, last)[3]), position)
        THEN << Value(d, Children(d, last)[1]) >>
        ELSE IF IsOp(d, last, "=")
        THEN << Value(d, get_previous_leaf(d, last)) >>
        ELSE NoKey

\* the keyword name by the second child of the argument: the '=' of
\* name=value (the comp_for of a generator argument)
KeywordBySecondChild(d, bracket, position) ==
  IF StartedBefore(d, bracket, position) = {} THEN NoKey
  ELSE
    LET last == LastStarted(d, bracket, position)
    IN  IF /\ Type(d, last) = "argument"
           /\ PosLE(EndPos(d, Children(d, last)[2]), position)
        THEN << Value(d, Children(d, last)[1]) >>
        ELSE IF IsOp(d, last, "=")
        THEN << Value(d, get_previous_leaf(d, last)) >>
        ELSE NoKey

\* the '(' of a def or class header: it follows the name that follows the keyword
IsHeaderBracket(d, n) ==
  /\ IsOp(d, n, "(")
  /\ get_previous_leaf(d, n) # 0
  /\ Type(d, get_previous_leaf(d, n)) = "name"
  /\ get_previous_leaf(d, get_previous_leaf(d, n)) # 0
  /\ Type(d, get_previous_leaf(d, get_previous_leaf(d, n))) = "keyword"
  /\ Value(d, get_previous_leaf(d, get_previous_leaf(d, n))) \in { "def", "class" }

\* the '(' of a call: it follows a name or a closing bracket, and is no header's
IsCallBracket(d, n) ==
  /\ IsOp(d, n, "(")
  /\ get_previous_leaf(d, n) # 0
  /\ \/ Type(d, get_previous_leaf(d, n)) = "name"
     \/ IsOp(d, get_previous_leaf(d, n), ")")
     \/ IsOp(d, get_previous_leaf(d, n), "]")
  /\ ~IsHeaderBracket(d, n)

\* the bracket's ')' is among its following siblings and ends by the position
ClosedBefore(d, n, position) ==
  \E s \in SiblingsAfter(d, n) : IsOp(d, s, ")") /\ PosLE(EndPos(d, s), position)

\* the call brackets open at the position
OpenCalls(d, position) ==
  { n \in LeafSet(d) : /\ IsCallBracket(d, n)
                       /\ PosLE(EndPos(d, n), position)
                       /\ ~ClosedBefore(d, n, position) }

Innermost(d, position) ==
  CHOOSE n \in OpenCalls(d, position) :
    \A m \in OpenCalls(d, position) : PosLE(StartPos(d, m), StartPos(d, n))

\* the position is in a def or class header: after the keyword, and before
\* the header's colon when the header has one
InDefinitionHeader(d, position) ==
  \E k \in LeafSet(d) :
    /\ Type(d, k) = "keyword" /\ Value(d, k) \in { "def", "class" }
    /\ PosLE(EndPos(d, k), position)
    /\ \A c \in SiblingsAfter(d, k) : IsOp(d, c, ":") => PosLE(position, StartPos(d, c))

\* the position is inside a string literal or an error leaf, or at its end
InStringOrErrorLeaf(d, position) ==
  \E n \in LeafSet(d) :
    /\ Type(d, n) \in { "string", "error_leaf" }
    /\ PosLT(StartPos(d, n), position) /\ PosLE(position, EndPos(d, n))

\* ... and that leaf is a statement of its own, not a part of a larger one
InStatementStringOrErrorLeaf(d, position) ==
  \E n \in LeafSet(d) :
    /\ Type(d, n) \in { "string", "error_leaf" }
    /\ PosLT(StartPos(d, n), position) /\ PosLE(position, EndPos(d, n))
    /\ Type(d, Parent(d, n)) \in { "file_input", "simple_stmt", "suite" }

SigDone == sigResult.kind # "none"

StackDone == stackResult.outcome # "none"

(***************************************************************************)
(* C1                                                                      *)
(***************************************************************************)

\* C1: whenever get_call_signature_details returns a CallSignatureDetails,
\* its call_index is the number of ',' tokens that start strictly before the
\* cursor among the siblings following the bracket (the children of the
\* arglist when there is one); 0 when only the '(' precedes the cursor.
C1_CallIndexCountsCommas ==
  sigResult.kind = "details" =>
    sigResult.index = CommasBefore(module, sigResult.bracket, cursor)

\* an index of 2 counted inside an arglist: foo(a, b=12,| c)
C1_Witness ==
  /\ sigResult.kind = "details"
  /\ sigResult.index = 2
  /\ \E s \in SiblingsAfter(module, sigResult.bracket) : Type(module, s) = "arglist"

(***************************************************************************)
(* C2                                                                      *)
(***************************************************************************)

\* C2: when several call brackets are open at the cursor, the innermost one
\* (the one that starts last) is returned, and call_index is counted from it.
C2_InnermostOpenCall ==
  (SigDone /\ Cardinality(OpenCalls(module, cursor)) >= 2) =>
    /\ sigResult.kind = "details"
    /\ sigResult.bracket = Innermost(module, cursor)
    /\ sigResult.index = CommasBefore(module, Innermost(module, cursor), cursor)

(***************************************************************************)
(* C3                                                                      *)
(***************************************************************************)

C4_NoSignatureInDefinitionHeader ==
  (SigDone /\ InDefinitionHeader(module, cursor)) =>
    sigResult.kind = "None"

(***************************************************************************)
(* C5                                                                      *)
(***************************************************************************)

C9_NoInternalFault ==
  sigResult.kind \in { "none", "None", "details" }


(***************************************************************************)
(* cache_call_signatures under time_cache                                  *)
(***************************************************************************)

MaxRequests == 2

MaxClock == 3

\* settings.call_signatures_validity, in ticks
call_signatures_validity == 2

\* the module paths a request may come with
Paths == { NoPath, << "m.py" >> }

\* the documents the cache is exercised on
CacheDocuments == { DocFooOpen, DocNested, DocFooNextLine, DocBarNextLine }

\* the source text of a node: the texts of its leaves, in order
RECURSIVE NodeCode(_, _)
NodeCode(d, n) ==
  IF IsLeaf(d, n) THEN << Value(d, n) >>
  ELSE LET RECURSIVE Over(_)
           Over(i) == IF i > Len(Children(d, n)) THEN << >>
                      ELSE NodeCode(d, Children(d, n)[i]) \o Over(i + 1)
       IN  Over(1)

\* call_of_leaf: the call the leaf's trailer belongs to
call_of_leaf(d, leaf) == Parent(d, Parent(d, leaf))

evaluate_goto_definition(d, leaf) ==
  IF Type(d, leaf) = "name"
  THEN [how |-> "goto_definitions", what |-> << Value(d, leaf) >>]
  ELSE IF Type(d, Parent(d, leaf)) = "atom"
  THEN [how |-> "eval_element", what |-> NodeCode(d, Parent(d, leaf))]
  ELSE IF Type(d, Parent(d, leaf)) = "trailer"
  THEN [how |-> "eval_element", what |-> NodeCode(d, call_of_leaf(d, leaf))]
  ELSE [how |-> "[]", what |-> << >>]

\* the index of the last "(" of the text, 0 when it has none
RECURSIVE LastBracket(_)
LastBracket(whole) ==
  IF whole = << >> THEN 0
  ELSE IF Last(whole) = "(" THEN Len(whole)
  ELSE LastBracket(SubSeq(whole, 1, Len(whole) - 1))

\* re.match(r'.*\(', whole, re.DOTALL): None, or a match object of its own
\* identity; match objects compare by identity
ReMatch(whole, identity) ==
  IF LastBracket(whole) = 0 THEN NoMatch
  ELSE [id |-> identity, text |-> SubSeq(whole, 1, LastBracket(whole))]

\* the text the key is matched on
Whole(d, bracket_leaf, user_pos) ==
  LET index         == user_pos[1] - 1
      before_cursor == PySlice(d.lines[index + 1], 0, user_pos[2])
      other_lines   == PySlice(d.lines, StartPos(d, bracket_leaf)[1], index)
  IN  Join(other_lines \o << before_cursor >>)

\* the first value the generator yields: the cache key
CacheKey(d, module_path, bracket_leaf, user_pos, identity) ==
  IF module_path = NoPath THEN NoneKey
  ELSE [none  |-> FALSE,
        path  |-> module_path,
        match |-> ReMatch(Whole(d, bracket_leaf, user_pos), identity),
        pos   |-> StartPos(d, bracket_leaf)]

\* time_cache's lookup: the live entry under the key
LiveEntries(key) == { e \in dct : e.key = key /\ e.expiry > now }

InitCache ==
  /\ module \in CacheDocuments
  /\ cursor = << 1, 0 >>
  /\ sigResult = NoResult
  /\ stackResult = NoStack
  /\ IdleCache
  /\ IdleWalk

\* the api's call_signatures: the details at the cursor and, when there are
\* some, cache_call_signatures through time_cache's wrapper
CacheRequest(module_path) ==
  LET details == get_call_signature_details(module, cursor)
      key     == CacheKey(module, module_path, details.bracket, cursor, requests + 1)
      fresh   == evaluate_goto_definition(module, get_previous_leaf(module, details.bracket))
      live    == LiveEntries(key)
  IN  /\ requests < MaxRequests
      /\ details.kind = "details"
      /\ requests' = requests + 1
      /\ sigResult' = details
      /\ IF live # {}
         THEN /\ lastRequest' = [made |-> TRUE, key |-> key, hit |-> TRUE,
                                 returned |-> (CHOOSE e \in live : TRUE).value,
                                 fresh |-> fresh]
              /\ dct' = dct
         ELSE /\ lastRequest' = [made |-> TRUE, key |-> key, hit |-> FALSE,
                                 returned |-> fresh, fresh |-> fresh]
              /\ dct' = IF key.none THEN dct
                        ELSE { e \in dct : e.key # key } \cup
                             { [key |-> key, expiry |-> now + call_signatures_validity,
                                value |-> fresh] }
      /\ UNCHANGED << module, cursor, stackResult, now, walkVars >>

\* time passes
Tick ==
  /\ now < MaxClock
  /\ now' = now + 1
  /\ UNCHANGED << editorVars, dct, requests, lastRequest, walkVars >>

NextCache ==
  \/ \E d \in CacheDocuments : OpenDocument(d)
  \/ \E p \in Positions(module) : MoveCursor(p)
  \/ \E module_path \in Paths : CacheRequest(module_path)
  \/ Tick

SpecCache == InitCache /\ [][NextCache]_vars

(***************************************************************************)
(* C8                                                                      *)
(***************************************************************************)

\* C8: two cache requests that compute the same key have the same freshly
\* computed value: what a request gets from the cache is what a fresh
\* computation on the document as it is now gives.
C8_CacheTransparency ==
  /\ lastRequest.made => lastRequest.returned = lastRequest.fresh
  /\ \A e \in dct :
       (lastRequest.made /\ e.key = lastRequest.key) => e.value = lastRequest.fresh

(***************************************************************************)
(* get_possible_completion_types: the walk over the parser's stack         *)
(***************************************************************************)

MaxStackLen == 4

\* Grammar tables in pgen's layout, for the rules
\*   file: S ENDMARKER      S: A [X] ('+' A [X])*
\*   A: 'not'* NAME [X]     X: 'if' A | ','
\* labels[i + 1] is label i, a pair (type, value); a type from 256 on is a
\* non-terminal.  A dfa is (states, first): states[s + 1] lists the arcs
\* (label, next state) of state s, and the arc (0, s) marks s as accepting.
Grammar ==
  [ labels   |-> << << 0, "EMPTY" >>, << 1, "" >>, << 1, "if" >>, << 1, "not" >>,
                    << 12, "" >>, << 14, "" >>, << 0, "" >>,
                    << 257, "" >>, << 258, "" >>, << 259, "" >> >>,
    keywords |-> { << "if", 2 >>, << "not", 3 >> },
    tokens   |-> { << 1, 1 >>, << 12, 4 >>, << 14, 5 >>, << 0, 6 >> },
    start    |-> { 256, 257 },
    dfas     |->
      [ t \in 256 .. 259 |->
          CASE t = 256 ->
                 [ states |-> << << << 7, 1 >> >>,
                                 << << 6, 2 >> >>,
                                 << << 0, 2 >> >> >>,
                   first  |-> << 1, 3 >> ]
            [] t = 257 ->
                 [ states |-> << << << 8, 1 >> >>,
                                 << << 9, 2 >>, << 5, 0 >>, << 0, 1 >> >>,
                                 << << 5, 0 >>, << 0, 2 >> >> >>,
                   first  |-> << 1, 3 >> ]
            [] t = 258 ->
                 [ states |-> << << << 1, 1 >>, << 3, 0 >> >>,
                                 << << 9, 2 >>, << 0, 1 >> >>,
                                 << << 0, 2 >> >> >>,
                   first  |-> << 1, 3 >> ]
            [] t = 259 ->
                 [ states |-> << << << 2, 1 >>, << 4, 2 >> >>,
                                 << << 8, 2 >> >>,
                                 << << 0, 2 >> >> >>,
                   first  |-> << 2, 4 >> ] ] ]

Symbols == DOMAIN Grammar.dfas

\* states[state] of the dfa of a symbol
Arcs(t, state) == Grammar.dfas[t].states[state + 1]

\* a frame of the parser's stack: (dfa, state, node), the dfa named by its symbol
Frames ==
  { [dfa |-> t, state |-> s] :
      t \in Symbols, s \in 0 .. 2 }

\* the parser pops a frame as soon as its state can only accept
AcceptOnly(f) == Arcs(f.dfa, f.state) = << << 0, f.state >> >>

\* pushing a non-terminal moves the frame below to the target of its arc
Pushes(below, above) ==
  \E s \in 0 .. 2 :
    \E a \in 1 .. Len(Arcs(below.dfa, s)) :
      /\ Grammar.labels[Arcs(below.dfa, s)[a][1] + 1][1] = above.dfa
      /\ Arcs(below.dfa, s)[a][2] = below.state

\* the stacks the parser can be stopped with: the start symbol at the
\* bottom, every frame pushed by the frame below it
RECURSIVE StacksOfLen(_)
StacksOfLen(n) ==
  IF n = 1 THEN { << f >> : f \in { g \in Frames : g.dfa \in Grammar.start } }
  ELSE UNION { { Append(s, f) : f \in { g \in Frames : Pushes(Last(s), g) } } :
                 s \in StacksOfLen(n - 1) }

Stacks ==
  { s \in UNION { StacksOfLen(n) : n \in 1 .. MaxStackLen } : ~AcceptOnly(Last(s)) }

\* stack[index] for a negative index: the frame, and whether there is one
InRange(s, index) == -index <= Len(s)

FrameAt(s, index) == s[Len(s) + index + 1]

\* inversed_tokens and inversed_keywords: from a label to its token type or keyword
IsToken(label_index) == \E p \in Grammar.tokens : p[2] = label_index

TokenOf(label_index) == (CHOOSE p \in Grammar.tokens : p[2] = label_index)[1]

IsKeyword(label_index) == \E p \in Grammar.keywords : p[2] = label_index

KeywordOf(label_index) == (CHOOSE p \in Grammar.keywords : p[2] = label_index)[1]

\* grammar.labels[label_index]: the symbol of a label that is neither
SymbolOf(label_index) == Grammar.labels[label_index + 1][1]

\* itsfirst.keys()
FirstLabels(t) == Grammar.dfas[t].first

\* a call of scan_stack or add_results: where it is in its loop
ScanCall(index) == [fn |-> "scan_stack", index |-> index, label |-> 0, next |-> 1]

AddCall(label_index) == [fn |-> "add_results", index |-> 0, label |-> label_index, next |-> 1]

\* the frame that scan_stack looks at after an accepting arc, two below
TwoBelow(index) == index - 2

\* the frame that scan_stack looks at after an accepting arc
Below(index) == index - 1

Pop == SubSeq(calls, 1, Len(calls) - 1)

\* the top call with its loop advanced by one
Advanced == [calls EXCEPT ![Len(calls)].next = @ + 1]

Top == Last(calls)

TopArcs == Arcs(FrameAt(stack, Top.index).dfa, FrameAt(stack, Top.index).state)

InitWalk ==
  /\ IdleEditor
  /\ IdleCache
  /\ stack \in Stacks
  /\ calls = << >>
  /\ keywords = << >>
  /\ grammar_labels = << >>
  /\ outcome = "idle"
  /\ scans = [i \in 1 .. Len(stack) |-> 0]
  /\ expansions = [t \in Symbols |-> 0]

\* scan_stack(-1)
Start ==
  /\ outcome = "idle"
  /\ outcome' = "running"
  /\ calls' = << ScanCall(-1) >>
  /\ scans' = [scans EXCEPT ![Len(stack)] = @ + 1]
  /\ UNCHANGED << editorVars, cacheVars, stack, keywords, grammar_labels, expansions >>

\* an arc with label 0: scan_stack(index - 1), which raises IndexError at
\* `stack[index]` when there is no such frame
ScanAccept ==
  /\ outcome = "running"
  /\ Top.fn = "scan_stack"
  /\ Top.next <= Len(TopArcs)
  /\ TopArcs[Top.next][1] = 0
  /\ IF InRange(stack, Below(Top.index))
     THEN /\ calls' = Append(Advanced, ScanCall(Below(Top.index)))
          /\ scans' = [scans EXCEPT ![Len(stack) + Below(Top.index) + 1] = @ + 1]
          /\ outcome' = outcome
     ELSE /\ calls' = << >>
          /\ scans' = scans
          /\ outcome' = "IndexError"
  /\ UNCHANGED << editorVars, cacheVars, stack, keywords, grammar_labels, expansions >>

\* any other arc: add_results(label_index)
ScanArc ==
  /\ outcome = "running"
  /\ Top.fn = "scan_stack"
  /\ Top.next <= Len(TopArcs)
  /\ TopArcs[Top.next][1] # 0
  /\ calls' = Append(Advanced, AddCall(TopArcs[Top.next][1]))
  /\ UNCHANGED << editorVars, cacheVars, stack, keywords, grammar_labels, outcome,
                  scans, expansions >>

\* add_results of a token's label
AddToken ==
  /\ outcome = "running"
  /\ Top.fn = "add_results"
  /\ IsToken(Top.label)
  /\ grammar_labels' = Append(grammar_labels, TokenOf(Top.label))
  /\ calls' = Pop
  /\ UNCHANGED << editorVars, cacheVars, stack, keywords, outcome, scans, expansions >>

\* add_results of a keyword's label
AddKeyword ==
  /\ outcome = "running"
  /\ Top.fn = "add_results"
  /\ ~IsToken(Top.label)
  /\ IsKeyword(Top.label)
  /\ keywords' = Append(keywords, KeywordOf(Top.label))
  /\ calls' = Pop
  /\ UNCHANGED << editorVars, cacheVars, stack, grammar_labels, outcome, scans, expansions >>

\* add_results of a non-terminal's label: add_results of each label of its
\* first set
AddFirst ==
  /\ outcome = "running"
  /\ Top.fn = "add_results"
  /\ ~IsToken(Top.label)
  /\ ~IsKeyword(Top.label)
  /\ IF SymbolOf(Top.label) < 256
     THEN /\ outcome' = "AssertionError"
          /\ calls' = << >>
          /\ expansions' = expansions
     ELSE /\ Top.next <= Len(FirstLabels(SymbolOf(Top.label)))
          /\ calls' = Append(Advanced, AddCall(FirstLabels(SymbolOf(Top.label))[Top.next]))
          /\ expansions' = IF Top.next = 1
                           THEN [expansions EXCEPT ![SymbolOf(Top.label)] = @ + 1]
                           ELSE expansions
          /\ outcome' = outcome
  /\ UNCHANGED << editorVars, cacheVars, stack, keywords, grammar_labels, scans >>

\* a loop is through: the call returns, the outermost one with the two lists
Return ==
  /\ outcome = "running"
  /\ \/ Top.fn = "scan_stack" /\ Top.next > Len(TopArcs)
     \/ /\ Top.fn = "add_results"
        /\ ~IsToken(Top.label) /\ ~IsKeyword(Top.label)
        /\ SymbolOf(Top.label) >= 256
        /\ Top.next > Len(FirstLabels(SymbolOf(Top.label)))
  /\ calls' = Pop
  /\ outcome' = IF Len(calls) = 1 THEN "returned" ELSE outcome
  /\ UNCHANGED << editorVars, cacheVars, stack, keywords, grammar_labels, scans, expansions >>

NextWalk ==
  \/ Start
  \/ ScanAccept
  \/ ScanArc
  \/ AddToken
  \/ AddKeyword
  \/ AddFirst
  \/ Return

SpecWalk == InitWalk /\ [][NextWalk]_vars

(***************************************************************************)
(* What may follow the parsed prefix, read off the tables                  *)
(***************************************************************************)

ToSet(s) == { s[i] : i \in 1 .. Len(s) }

Accepting(f) == \E a \in 1 .. Len(Arcs(f.dfa, f.state)) : Arcs(f.dfa, f.state)[a][1] = 0

\* the frames reached through an unbroken chain of accepting arcs
ReachedFrames(s) ==
  { i \in 1 .. Len(s) : \A j \in (i + 1) .. Len(s) : Accepting(s[j]) }

\* the terminal and keyword labels a label stands for
RECURSIVE Initials(_)
Initials(label_index) ==
  IF IsToken(label_index) \/ IsKeyword(label_index) THEN { label_index }
  ELSE UNION { Initials(l) : l \in ToSet(FirstLabels(SymbolOf(label_index))) }

FollowLabels(s) ==
  UNION { Initials(Arcs(s[i].dfa, s[i].state)[a][1]) :
            << i, a >> \in { p \in (1 .. Len(s)) \X (1 .. 3) :
                              /\ p[1] \in ReachedFrames(s)
                              /\ p[2] <= Len(Arcs(s[p[1]].dfa, s[p[1]].state))
                              /\ Arcs(s[p[1]].dfa, s[p[1]].state)[p[2]][1] # 0 } }

FollowKeywords(s) == { KeywordOf(l) : l \in { m \in FollowLabels(s) : IsKeyword(m) } }

FollowTokens(s) == { TokenOf(l) : l \in { m \in FollowLabels(s) : IsToken(m) } }

\* the chain of accepting arcs runs through the bottom frame
AcceptsThroughBottom(s) == \A i \in 1 .. Len(s) : Accepting(s[i])

WalkOver == outcome \in { "returned", "IndexError", "AssertionError" }

(***************************************************************************)
(* C6                                                                      *)
(***************************************************************************)

\* C6: a call of get_possible_completion_types that returns gives a
\* non-empty result when a continuation token exists, and while it runs it
\* scans no frame of the stack and no non-terminal's first set more than
\* once.
C6_NoPairExpandedTwice ==
  /\ (outcome = "returned" /\ FollowLabels(stack) # {}) =>
       (keywords # << >> \/ grammar_labels # << >>)
  /\ \A i \in DOMAIN scans : scans[i] <= 1
  /\ \A t \in DOMAIN expansions : expansions[t] <= 1

(***************************************************************************)
(* C7                                                                      *)
(***************************************************************************)

\* C7: the keywords and grammar labels that get_possible_completion_types
\* returns are, as sets, the symbols that may follow the parsed prefix: for
\* each frame reached through accepting arcs, each arc label of its state
\* that is not 0, itself when a token or keyword and the members of its
\* first set when a non-terminal; other frames contribute nothing.
C7_ResultIsFollowSet ==
  outcome = "returned" =>
    /\ ToSet(keywords) = FollowKeywords(stack)
    /\ ToSet(grammar_labels) = FollowTokens(stack)

\* a walk that returned after going below the innermost frame and scanning a
\* first set, with keywords and labels to give
C7_Witness ==
  /\ outcome = "returned"
  /\ Cardinality(ReachedFrames(stack)) >= 2
  /\ \E t \in DOMAIN expansions : expansions[t] >= 1
  /\ keywords # << >>
  /\ grammar_labels # << >>

(***************************************************************************)
(* C10                                                                     *)
(***************************************************************************)

====
